---- MODULE Spec2Model ----
(***************************************************************************)
(* High-Value-Links: the crawl orchestrator (main.py), the scraper's       *)
(* visited set, scoring, sort and transport chain (scraper.py), the        *)
(* refinement of a page's links (llm_classifier.py) and the link store     *)
(* with its in-memory fallback (database.py).                              *)
(*                                                                         *)
(* Scores are integers in hundredths (0.7 is 70).  URLs, pages and reason  *)
(* texts are small integers.  A link record is a function from field names *)
(* to values; an optional field (llm_reason) is absent from the domain.    *)
(***************************************************************************)
EXTENDS Integers, Sequences, FiniteSets, TLC

VARIABLES
    \* ---- LinkDatabase (database.py) ----
    connection_string,    \* "" | "mongodb+srv" | "mongodb": what __init__ was given
    server_up,            \* the server answered the ping of __init__
    connected,            \* self.collection is not None
    collection,           \* the documents of the network collection (unique url)
    has_in_memory_links,  \* the attribute self._in_memory_links exists
    in_memory_links,      \* self._in_memory_links, a list of link records
    ret,                  \* the LinkDatabase call a caller is being answered, or NoCall
    \* ---- ScraperManager / LinkScraper (main.py, scraper.py) ----
    cfg,                  \* max_depth, min_score_threshold, max_links_per_page,
                          \* use_llm, api_key (OPENAI_API_KEY is set)
    web,                  \* the link graph: what each URL serves
    pc,                   \* "idle" | "running" | "done"
    stack,                \* pending calls of _recursive_process, innermost first
    processed_urls,       \* the set of process_url_recursively
    visited_urls,         \* LinkScraper.visited_urls
    total_high_value_links,
    result,               \* the value process_url_recursively returned
    now,                  \* datetime.now(), one tick per process_url call
    runs,                 \* process_url_recursively calls made on this manager
    \* ---- observations of the run (history) ----
    fetched,              \* url -> number of _get_page_content calls
    calls,                \* one entry per process_url call, in call order
    \* ---- one page through scrape and refinement (scraper.py, llm_classifier.py) ----
    keywords,             \* LinkScraper.keywords, a list of words
    all_links,            \* what _extract_links found on the page, in document order
    sorted_links,         \* what scrape returned
    links_to_refine,      \* process_url's links after the cut to max_links_per_page
    batch_idx,            \* batches of classify_links done so far
    classified_links,     \* the list classify_links builds
    submitted,            \* one entry per service request (history)
    refined_links,        \* process_url's links after step 2
    ppc,                  \* "idle" | "scraped" | "loop" | "refined"
    \* ---- LinkScraper._get_page_content (scraper.py) ----
    scheme,               \* "http" | "https": the scheme of the URL being fetched
    fpc,                  \* "idle" | the strategy to try next | "returned" | "raised"
    attempts,             \* the strategies tried so far, with what each met (history)
    html_content,         \* what _get_page_content returned
    \* ---- the HTTP interface (api.py) ----
    active_tasks,         \* the module's dict: task_id -> the record last written
    bg,                   \* task_id -> where its scrape_in_background call is
    status_response,      \* what the last get_task_status call answered
    manager_links,        \* task_id -> _in_memory_links of the LinkDatabase of its manager
    task_saved,           \* task_id -> the urls its run saved (history)
    links_response        \* what the last GET /links answered

dbvars    == <<connection_string, server_up, connected, collection, has_in_memory_links, in_memory_links>>
crawlvars == <<cfg, web, pc, stack, processed_urls, visited_urls,
               total_high_value_links, result, now, runs, fetched, calls>>
pagevars  == <<keywords, all_links, sorted_links, links_to_refine, batch_idx,
               classified_links, submitted, refined_links, ppc>>
fetchvars == <<scheme, fpc, attempts, html_content>>
apivars   == <<active_tasks, bg, status_response, manager_links, task_saved, links_response>>
vars      == <<connection_string, server_up, connected, collection, has_in_memory_links, in_memory_links, ret,
               cfg, web, pc, stack, processed_urls, visited_urls,
               total_high_value_links, result, now, runs, fetched, calls,
               keywords, all_links, sorted_links, links_to_refine, batch_idx,
               classified_links, submitted, refined_links, ppc,
               scheme, fpc, attempts, html_content,
               active_tasks, bg, status_response, manager_links, task_saved, links_response>>

----------------------------------------------------------------------------
\* Bounds of the model.
NumUrls   == 3      \* URLs are 1..NumUrls
MaxStored == 2      \* store calls are explored while the in-memory list is this short
MaxDepthBound == 2  \* max_depth is drawn from 0..MaxDepthBound
MaxRuns   == 2      \* process_url_recursively calls made on one manager
MaxTasks  == 2      \* scrape requests the interface is sent

\* Program constants.
CountLimit == 999999   \* the limit get_link_count passes to _filter_in_memory_links
DefaultLimit == 100    \* get_links(..., limit: int = 100, skip: int = 0)

URLS == 1..NumUrls

\* return None
None == -1

\* No page is in the scrape and refinement steps.
PageIdle ==
    /\ keywords = <<>>
    /\ all_links = <<>>
    /\ sorted_links = <<>>
    /\ links_to_refine = <<>>
    /\ batch_idx = 0
    /\ classified_links = <<>>
    /\ submitted = <<>>
    /\ refined_links = <<>>
    /\ ppc = "idle"

\* No _get_page_content call is under way.
FetchIdle ==
    /\ scheme = "http"
    /\ fpc = "idle"
    /\ attempts = <<>>
    /\ html_content = None

TaskIds == 1..MaxTasks

\* No request has been answered yet.
NoResponse == [code |-> 0]

\* active_tasks = {} and no request has been made.
ApiIdle ==
    /\ active_tasks = [t \in {} |-> NoResponse]
    /\ bg = [t \in TaskIds |-> "none"]
    /\ status_response = NoResponse
    /\ manager_links = [t \in TaskIds |-> <<>>]
    /\ task_saved = [t \in TaskIds |-> {}]
    /\ links_response = NoResponse

\* Python values of these fields are str; every other modelled field is a number.
StrFields == {"url", "source_url", "llm_reason"}

----------------------------------------------------------------------------
\* Generic list helpers.

Min2(a, b) == IF a <= b THEN a ELSE b
Max2(a, b) == IF a >= b THEN a ELSE b

\* Python s[start:stop] for start >= 0 and any integer stop.
PySlice(s, start, stop) ==
    LET n  == Len(s)
        lo == Min2(start, n)
        hi == IF stop < 0 THEN Max2(stop + n, 0) ELSE Min2(stop, n)
    IN  IF lo < hi THEN SubSeq(s, lo + 1, hi) ELSE <<>>

Range(s) == {s[i] : i \in 1..Len(s)}

\* str.lower()
Lower(w) ==
    CASE w = "Budget"  -> "budget"
      [] w = "Contact" -> "contact"
      [] w = "Report"  -> "report"
      [] OTHER         -> w

LowerAll(ws) == {Lower(w) : w \in ws}

----------------------------------------------------------------------------
\* LinkDatabase (database.py).
\*
\* A filter is a set of conditions [key, op, v]: op "eq" is the exact match
\* {key: v}, and "gt", "gte", "lt", "lte" are the entries of {key: {"$gt": v, ...}}.
\* A sort is a list of <<field, direction>>, direction -1 for descending.

Cond(key, op, v) == [key |-> key, op |-> op, v |-> v]

\* The test of one list comprehension of _filter_in_memory_links.
KeepIn(link, c) ==
    /\ c.key \in DOMAIN link
    /\ CASE c.op = "gt"  -> link[c.key] > c.v
         [] c.op = "gte" -> link[c.key] >= c.v
         [] c.op = "lt"  -> link[c.key] < c.v
         [] c.op = "lte" -> link[c.key] <= c.v
         [] OTHER        -> link[c.key] = c.v

\* The test of one list comprehension of _filter_out_in_memory_links.
KeepOut(link, c) ==
    \/ c.key \notin DOMAIN link
    \/ CASE c.op = "gt"  -> link[c.key] <= c.v
         [] c.op = "gte" -> link[c.key] < c.v
         [] c.op = "lt"  -> link[c.key] >= c.v
         [] c.op = "lte" -> link[c.key] > c.v
         [] OTHER        -> link[c.key] # c.v

\* for key, value in filter_params.items(): filtered_links = [link for ... if test]:
\* the comprehensions are applied one after the other.
FilterIn(links, filter) ==
    SelectSeq(links, LAMBDA link : \A c \in filter : KeepIn(link, c))

FilterOut(links, filter) ==
    SelectSeq(links, LAMBDA link : \A c \in filter : KeepOut(link, c))

\* key=lambda x: x.get(field, 0) if field in x else 0
SortKey(link, field) == IF field \in DOMAIN link THEN link[field] ELSE 0

\* list.sort compares a str key with the int default 0: TypeError.
KeysMixed(links, field) ==
    /\ field \in StrFields
    /\ \E i, j \in 1..Len(links) :
          field \in DOMAIN links[i] /\ field \notin DOMAIN links[j]

\* list.sort(key=..., reverse=...) and sorted(...) are stable, also with
\* reverse=True: an element comes after those with a better key and after the
\* earlier ones with an equal key.
StableSort(links, field, reverse) ==
    LET n == Len(links)
        Before(j, i) ==
            LET kj == SortKey(links[j], field)
                ki == SortKey(links[i], field)
            IN  IF kj = ki THEN j < i
                ELSE IF reverse THEN kj > ki ELSE kj < ki
        Place(i) == 1 + Cardinality({j \in 1..n : Before(j, i)})
    IN  <<>> \o [k \in 1..n |-> links[CHOOSE i \in 1..n : Place(i) = k]]

\* for field, direction in reversed(sort_by): filtered_links.sort(...)
RECURSIVE SortAll(_, _)
SortAll(links, sort_by) ==
    IF sort_by = <<>> THEN links
    ELSE StableSort(SortAll(links, Tail(sort_by)), Head(sort_by)[1], Head(sort_by)[2] = -1)

Perms(links) ==
    {<<>> \o [i \in 1..Len(links) |-> links[f[i]]] :
        f \in {g \in [1..Len(links) -> 1..Len(links)] :
                  \A i, j \in 1..Len(links) : i # j => g[i] # g[j]}}

\* _filter_in_memory_links: the set of outcomes [out, exc, mem], mem being
\* self._in_memory_links after the call.  With an empty filter filtered_links is
\* the stored list itself and sort() reorders it in place; a sort that raises
\* leaves the list in some order.
FilterInMemoryLinks(mem, filter, sort_by, limit, skip) ==
    LET filtered == FilterIn(mem, filter)
        alias    == filter = {}
        raises   == \E i \in 1..Len(sort_by) : KeysMixed(filtered, sort_by[i][1])
        sorted   == SortAll(filtered, sort_by)
    IN  IF raises
        THEN {[out |-> <<>>, exc |-> "TypeError", mem |-> m] :
                 m \in IF alias THEN Perms(mem) ELSE {mem}}
        ELSE {[out |-> PySlice(sorted, skip, skip + limit), exc |-> "none",
               mem |-> IF alias THEN sorted ELSE mem]}

\* ---- the network collection (pymongo), as the calls of database.py use it ----

\* {field: {"$regex": pattern, "$options": "i"}}: the field is a string in which
\* the pattern is found, letter case ignored.  A text is modelled by the set of
\* the words found in it.
RegexMatches(doc, alt) ==
    /\ alt.field \in DOMAIN doc
    /\ Lower(alt.regex) \in LowerAll(doc[alt.field])

\* One key of a find filter: "$or" is the query operator, any other key a field.
Matches(doc, c) ==
    IF c.key = "$or"
    THEN \E i \in 1..Len(c.v) : RegexMatches(doc, c.v[i])
    ELSE KeepIn(doc, c)

\* {"$set": link}: the fields of link are written, the other fields stay.
SetFields(doc, link) ==
    [f \in DOMAIN doc \cup DOMAIN link |-> IF f \in DOMAIN link THEN link[f] ELSE doc[f]]

\* The update writes its fields only when it inserts ($setOnInsert).
UpdateOneOnInsert(coll, link) ==
    IF \E d \in coll : d["url"] = link["url"] THEN coll ELSE coll \cup {link}

\* One UpdateOne({"url": link["url"]}, {"$set": link}, upsert=True).
UpdateOne(coll, link) ==
    IF \E d \in coll : d["url"] = link["url"]
    THEN {IF d["url"] = link["url"] THEN SetFields(d, link) ELSE d : d \in coll}
    ELSE coll \cup {link}

\* bulk_write of the first k operations, in order.
RECURSIVE BulkWrite(_, _, _)
BulkWrite(coll, links, k) ==
    IF k = 0 THEN coll
    ELSE UpdateOne(BulkWrite(coll, links, k - 1), links[k])

\* result.upserted_count + result.modified_count
RECURSIVE WriteCount(_, _, _)
WriteCount(coll, links, k) ==
    IF k = 0 THEN 0
    ELSE LET before == BulkWrite(coll, links, k - 1)
         IN  WriteCount(coll, links, k - 1)
             + (IF UpdateOne(before, links[k]) # before THEN 1 ELSE 0)

\* A missing field sorts first in an ascending cursor.
CursorKey(doc, field) == IF field \in DOMAIN doc THEN doc[field] ELSE -1

RECURSIVE CursorBefore(_, _, _)
CursorBefore(a, b, sort_by) ==
    IF sort_by = <<>> THEN TRUE
    ELSE LET ka == CursorKey(a, Head(sort_by)[1])
             kb == CursorKey(b, Head(sort_by)[1])
         IN  IF ka = kb THEN CursorBefore(a, b, Tail(sort_by))
             ELSE IF Head(sort_by)[2] = -1 THEN ka > kb ELSE ka < kb

SetToSeqs(S) ==
    {<<>> \o f : f \in {g \in [1..Cardinality(S) -> S] :
                        \A i, j \in 1..Cardinality(S) : i # j => g[i] # g[j]}}

\* collection.find(filter).sort(sort).skip(skip).limit(limit): the lists the
\* cursor may yield (documents with equal keys come in any order).  limit(0) is
\* no limit and a negative limit is its absolute value.
Find(coll, filter, sort_by, limit, skip) ==
    LET match == {d \in coll : \A c \in filter : Matches(d, c)}
        lim   == IF limit < 0 THEN -limit ELSE limit
    IN  {IF limit = 0 THEN PySlice(s, skip, Len(s)) ELSE PySlice(s, skip, skip + lim) :
            s \in {t \in SetToSeqs(match) :
                     \A i, j \in 1..Len(t) : i < j => CursorBefore(t[i], t[j], sort_by)}}

CountDocuments(coll, filter) ==
    Cardinality({d \in coll : \A c \in filter : Matches(d, c)})

\* ---- the methods of LinkDatabase ----
\* Each gives the set of outcomes of one call in the current state:
\* [out, exc, coll, mem, net, applied]: exc = "none" when the call returned out,
\* net tells what the collection did: "ok", "error" (the call to the collection
\* raised a PyMongoError, which the network may do to any call) or "unused", and
\* applied is the number of links of a save_links call that reached the store.

Written(out, exc, coll, mem, net, applied) ==
    [out |-> out, exc |-> exc, coll |-> coll, mem |-> mem, net |-> net,
     applied |-> applied]

Outcome(out, exc, coll, mem, net) == Written(out, exc, coll, mem, net, 0)

\* Every connection string is tried against the server.
InitConnectedAnyString(cs, up) == cs # "" /\ up

\* __init__: the network backing is used only for a mongodb+srv:// string whose
\* server answers; every other case ends in _setup_in_memory.
InitConnected(cs, up) == cs = "mongodb+srv" /\ up

\* link["source_url"] = source_url, for each link
WithSource(links, source_url) ==
    [i \in 1..Len(links) |->
        [f \in DOMAIN links[i] \cup {"source_url"} |->
            IF f = "source_url" THEN source_url ELSE links[i][f]]]

\* The count is returned and the list is left as it was.
ExtendInMemoryLost(coll, links, net, k) ==
    Written(Len(links), "none", coll, in_memory_links, net, 0)

\* self._in_memory_links.extend(links); return len(links)
ExtendInMemory(coll, links, net, k) ==
    IF has_in_memory_links
    THEN Written(Len(links), "none", coll, in_memory_links \o links, net, Len(links))
    ELSE Written(0, "AttributeError", coll, in_memory_links, net, k)

\* bulk_write raises before the server applied anything (the request was lost)
\* or after it applied the whole batch (the answer was lost).
FailurePoints(n) == {0, n}

save_links(links, source_url) ==
    LET stamped == <<>> \o WithSource(links, source_url)
    IN  IF links = <<>> THEN {Outcome(0, "none", collection, in_memory_links, "unused")}
        ELSE IF connected
        THEN {Written(WriteCount(collection, stamped, Len(stamped)), "none",
                      BulkWrite(collection, stamped, Len(stamped)), in_memory_links,
                      "ok", Len(stamped))}
             \cup
             \* except PyMongoError, after k operations reached the server
             {ExtendInMemory(BulkWrite(collection, stamped, k), stamped, "error", k) :
                 k \in FailurePoints(Len(stamped))}
        ELSE {ExtendInMemory(collection, stamped, "unused", 0)}

\* The in-memory path of get_links and get_link_count.
InMemoryPath(filter, sort_by, limit, skip, net) ==
    IF has_in_memory_links
    THEN {Outcome(r.out, r.exc, collection, r.mem, net) :
             r \in FilterInMemoryLinks(in_memory_links, filter, sort_by, limit, skip)}
    ELSE {Outcome(<<>>, "AttributeError", collection, in_memory_links, net)}

\* sort_by = sort_by or [("relevance_score", -1)]
SortOrDefault(sort_by) ==
    IF sort_by = <<>> THEN << <<"relevance_score", -1>> >> ELSE sort_by

get_links(filter, sort_by, limit, skip) ==
    IF connected
    THEN {Outcome(docs, "none", collection, in_memory_links, "ok") :
             docs \in Find(collection, filter, SortOrDefault(sort_by), limit, skip)}
         \cup InMemoryPath(filter, SortOrDefault(sort_by), limit, skip, "error")
    ELSE InMemoryPath(filter, SortOrDefault(sort_by), limit, skip, "unused")

\* len(self._filter_in_memory_links(filter_params, [], 999999, 0))
CountInMemory(filter, net) ==
    {Outcome(IF r.exc = "none" THEN Len(r.out) ELSE 0, r.exc, r.coll, r.mem, net) :
        r \in InMemoryPath(filter, <<>>, CountLimit, 0, net)}

get_link_count(filter) ==
    IF connected
    THEN {Outcome(CountDocuments(collection, filter), "none",
                  collection, in_memory_links, "ok")}
         \cup CountInMemory(filter, "error")
    ELSE CountInMemory(filter, "unused")

\* delete_links past its guard: delete_many, or the list without the records
\* _filter_out_in_memory_links drops.
DeleteWhere(filter) ==
    IF connected
    THEN LET match == {d \in collection : \A c \in filter : Matches(d, c)}
         IN  {Outcome(Cardinality(match), "none", collection \ match,
                      in_memory_links, "ok")}
             \cup
             \* except PyMongoError: return 0, whatever the server had deleted
             {Outcome(0, "none", collection \ gone, in_memory_links, "error") :
                 gone \in SUBSET match}
    ELSE LET kept == FilterOut(in_memory_links, filter)
         IN  {Outcome(Len(in_memory_links) - Len(kept), "none", collection, kept,
                      "unused")}

\* The empty filter is not turned away.
DeleteLinksUnguarded(filter) == DeleteWhere(filter)

\* if not filter_params: return 0
delete_links(filter) ==
    IF filter = {} THEN {Outcome(0, "none", collection, in_memory_links, "unused")}
    ELSE DeleteWhere(filter)

----------------------------------------------------------------------------
\* LLMClassifier (llm_classifier.py), as process_url uses it.
\*
\* A reply of the service for one batch is [ok, lines]: ok = FALSE is a failed
\* service call, and lines are the "Link n: score - reason" lines of the
\* response, each [n, score, reason], reason = 0 when the line has no " - ".
\* The pages of the model hold fewer than batch_size links: one batch per page.

\* if 0 <= link_num < len(updated_links) and 0.0 <= score <= 1.0: ...
ApplyLine(links, line) ==
    IF 1 <= line.n /\ line.n <= Len(links) /\ 0 <= line.score /\ line.score <= 100
    THEN [links EXCEPT ![line.n] =
            [f \in DOMAIN @ \cup (IF line.reason # 0 THEN {"llm_reason"} ELSE {}) |->
                IF f = "relevance_score" THEN line.score
                ELSE IF f = "llm_reason" /\ line.reason # 0 THEN line.reason
                ELSE @[f]]]
    ELSE links

RECURSIVE ParseClassificationResponse(_, _)
ParseClassificationResponse(links, lines) ==
    IF lines = <<>> THEN links
    ELSE ParseClassificationResponse(ApplyLine(links, Head(lines)), Tail(lines))

\* classify_links: without an API key the links are returned as they are; a
\* failed service call returns the batch as it is.
classify_links(links, api_key, reply) ==
    IF ~api_key THEN links
    ELSE IF ~reply.ok THEN links
    ELSE ParseClassificationResponse(links, reply.lines)

NoReply == [ok |-> FALSE, lines |-> <<>>]

Replies(links) ==
    { NoReply,
      [ok |-> TRUE, lines |-> << [n |-> 1, score |-> 95, reason |-> 1] >>],
      [ok |-> TRUE, lines |-> << [n |-> 1, score |-> 10, reason |-> 0],
                                 [n |-> Len(links) + 1, score |-> 95, reason |-> 1] >>] }

----------------------------------------------------------------------------
\* LinkScraper.scrape and ScraperManager.process_url (scraper.py, main.py).
\*
\* What a URL serves is [status, links]: status "fetch_failed" (every transport
\* strategy failed), "bad_markup" (extraction raises) or "ok" with the extracted
\* links and their heuristic scores, in document order.

Scored(u, s) == [url |-> u, relevance_score |-> s]

NextUrl(u) == (u % NumUrls) + 1
PrevUrl(u) == ((u + NumUrls - 2) % NumUrls) + 1

Unknown == [status |-> "unknown", links |-> <<>>]

Pages(u) ==
    { [status |-> "fetch_failed", links |-> <<>>],
      [status |-> "bad_markup", links |-> <<>>],
      [status |-> "ok", links |-> <<>>],
      \* one strong link onwards: chains and cycles
      [status |-> "ok", links |-> << Scored(NextUrl(u), 90) >>],
      \* a link below the threshold, one accepted but not followed, one followed
      [status |-> "ok", links |-> << Scored(u, 40), Scored(NextUrl(u), 60),
                                     Scored(PrevUrl(u), 90) >>],
      \* every URL twice: more links to follow than max_follow
      [status |-> "ok", links |-> [i \in 1..(2 * NumUrls) |->
                                      Scored(((i - 1) % NumUrls) + 1,
                                             IF i <= NumUrls THEN 80 ELSE 90)]] }

\* max_follow = 5
MaxFollow == 5

\* follow_threshold = max(0.7, self.min_score_threshold + 0.1)
FollowThreshold(min_score_threshold) == Max2(70, min_score_threshold + 10)

\* if depth > self.max_depth or url in self.visited_urls: return []
ScrapeSkips(url, depth) == depth > cfg.max_depth \/ url \in visited_urls

\* The sort is ascending and the list is then reversed: ties change places.
SortByScoreTiesReversed(links) ==
    LET up == StableSort(links, "relevance_score", FALSE)
    IN  <<>> \o [i \in 1..Len(up) |-> up[Len(up) + 1 - i]]

\* sorted(all_links, key=lambda x: x['relevance_score'], reverse=True)
SortByScore(links) == StableSort(links, "relevance_score", TRUE)

\* scrape(url, depth) on a page: the links it returns.
scrape(url, depth, page) ==
    IF ScrapeSkips(url, depth) THEN <<>>
    ELSE IF page.status # "ok" THEN <<>>
    ELSE SortByScore(<<>> \o page.links)

\* The list is not cut.
CapLinksNot(links) == links

\* links = links[:self.max_links_per_page]
CapLinks(links) ==
    IF Len(links) > cfg.max_links_per_page
    THEN SubSeq(links, 1, cfg.max_links_per_page) ELSE links

\* [link for link in links if link.get('relevance_score', 0) >= threshold]
AtLeast(links, threshold) ==
    SelectSeq(links, LAMBDA link : SortKey(link, "relevance_score") >= threshold)

\* Every link gets the same constant in place of the time of the call.
StampEpoch(links, timestamp) ==
    <<>> \o [i \in 1..Len(links) |->
                [f \in DOMAIN links[i] \cup {"timestamp"} |->
                    IF f = "timestamp" THEN 0 ELSE links[i][f]]]

\* link['timestamp'] = timestamp, for each high-value link
Stamp(links, timestamp) ==
    <<>> \o [i \in 1..Len(links) |->
                [f \in DOMAIN links[i] \cup {"timestamp"} |->
                    IF f = "timestamp" THEN timestamp ELSE links[i][f]]]

\* The except branch returns the links it had.
ProcessUrlReturnKept(high_value_links, exc) == high_value_links

\* What process_url returns: the high-value links, or [] from the except branch.
ProcessUrlReturn(high_value_links, exc) ==
    IF exc = "none" THEN high_value_links ELSE <<>>

Urls(links) == [i \in 1..Len(links) |-> links[i]["url"]]

\* process_url(url, depth) on a page with a refiner reply: the set of outcomes
\* [returned, failure, cleared, coll, mem, written, asked, scores, source]:
\* cleared, scores and source are the urls and scores of the links handed to
\* save_links and the source_url handed with them, asked is the number of links
\* sent to the service.
process_url(url, depth, page, reply) ==
    LET scraped  == CapLinks(scrape(url, depth, page))
        refined  == IF cfg.use_llm /\ scraped # <<>>
                    THEN classify_links(scraped, cfg.api_key, reply) ELSE scraped
        high     == Stamp(AtLeast(refined, cfg.min_score_threshold), now + 1)
        failure  == IF ScrapeSkips(url, depth) THEN "skipped"
                    ELSE IF page.status # "ok" THEN page.status ELSE "none"
        asked    == IF cfg.use_llm /\ scraped # <<>> /\ cfg.api_key
                    THEN Len(scraped) ELSE 0
    IN  IF high = <<>>
        THEN {[returned |-> <<>>, failure |-> failure, cleared |-> <<>>,
               coll |-> collection, mem |-> in_memory_links, written |-> {},
               asked |-> asked, scores |-> <<>>, source |-> url]}
        ELSE {[returned |-> ProcessUrlReturn(WithSource(high, url), r.exc),
               failure  |-> IF r.exc = "none" THEN "none" ELSE "store",
               cleared  |-> Urls(high),
               coll     |-> r.coll,
               mem      |-> r.mem,
               written  |-> {high[i]["url"] : i \in 1..r.applied},
               asked    |-> asked,
               scores   |-> [i \in 1..Len(high) |-> high[i]["relevance_score"]],
               source   |-> url] :
                 r \in save_links(high, url)}

----------------------------------------------------------------------------
\* The store driven directly (the calls api.py and other callers make).

StoreUrls    == {1, 2}
StoreScores  == {30, 80}
StoreSources == {1, 2}

Link(u, s) == [url |-> u, relevance_score |-> s]
Refined(u, s, r) == [url |-> u, relevance_score |-> s, llm_reason |-> r]

\* A link as scrape returns it, with its text and context.
Described(u, s, text, context) ==
    [url |-> u, relevance_score |-> s, text |-> text, context |-> context]

LinkInputs ==
    {Link(u, s) : u \in StoreUrls, s \in StoreScores}
       \cup {Refined(2, 80, 1)}
       \cup {Described(1, 80, {"Budget"}, {"report"})}

LinkLists == {<<a>> : a \in LinkInputs} \cup {<<a, b>> : a \in LinkInputs, b \in LinkInputs}

\* filter_params["$or"] of the /links and /links/count handlers for a keyword
KeywordFilter(keyword) ==
    {Cond("$or", "eq", << [field |-> "text", regex |-> Lower(keyword)],
                          [field |-> "context", regex |-> Lower(keyword)] >>)}

Keywords == {"budget", "Report"}

Filters ==
    { {},
      KeywordFilter("budget"),
      KeywordFilter("Report"),
      {Cond("relevance_score", "gte", 50)},
      {Cond("source_url", "eq", 1)},
      {Cond("relevance_score", "gte", 50), Cond("source_url", "eq", 1)},
      {Cond("relevance_score", "gt", 20), Cond("relevance_score", "lt", 50)},
      {Cond("llm_reason", "eq", 1)} }

Sorts ==
    { <<>>,
      << <<"relevance_score", 1>> >>,
      << <<"llm_reason", 1>> >>,
      << <<"source_url", -1>>, <<"relevance_score", 1>> >> }

Limits == {-1, 0, 1, CountLimit}
Skips  == {0, 1}

NoCall == [op |-> "none", filter |-> {}, sort_by |-> <<>>, limit |-> 0, skip |-> 0,
           links |-> <<>>, source_url |-> 0, out |-> 0, exc |-> "none", net |-> "unused"]

Called(op, filter, sort_by, limit, skip, links, source_url, r) ==
    [op |-> op, filter |-> filter, sort_by |-> sort_by, limit |-> limit, skip |-> skip,
     links |-> links, source_url |-> source_url,
     out |-> r.out, exc |-> r.exc, net |-> r.net]

DbInit ==
    /\ connection_string \in {"", "mongodb+srv", "mongodb"}
    /\ server_up \in BOOLEAN
    /\ connected = InitConnected(connection_string, server_up)
    /\ collection = {}
    /\ has_in_memory_links = ~connected
    /\ in_memory_links = <<>>

CrawlIdle ==
    /\ cfg = [max_depth |-> 0, min_score_threshold |-> 50,
              max_links_per_page |-> 100, use_llm |-> FALSE,
              api_key |-> FALSE]
    /\ web = [u \in URLS |-> Unknown]
    /\ pc = "idle"
    /\ stack = <<>>
    /\ processed_urls = {}
    /\ visited_urls = {}
    /\ total_high_value_links = 0
    /\ result = 0
    /\ now = 0
    /\ runs = 0
    /\ fetched = [u \in URLS |-> 0]
    /\ calls = <<>>

StoreInit == DbInit /\ ret = NoCall /\ CrawlIdle /\ PageIdle /\ FetchIdle /\ ApiIdle

DbStep(r) ==
    /\ collection' = r.coll
    /\ in_memory_links' = r.mem
    /\ UNCHANGED <<connection_string, server_up, connected, has_in_memory_links>>

SaveLinksCall ==
    /\ UNCHANGED <<pagevars, fetchvars, apivars>>
    /\ ret = NoCall
    /\ \E links \in LinkLists, source_url \in StoreSources :
        /\ Len(in_memory_links) + Len(links) <= MaxStored
        /\ \E r \in save_links(links, source_url) :
              /\ DbStep(r)
              /\ ret' = Called("save_links", {}, <<>>, 0, 0, links, source_url, r)
        /\ UNCHANGED crawlvars

GetLinksCall ==
    /\ UNCHANGED <<pagevars, fetchvars, apivars>>
    /\ ret = NoCall
    /\ \E filter \in Filters, sort_by \in Sorts, limit \in Limits, skip \in Skips :
        /\ \E r \in get_links(filter, sort_by, limit, skip) :
              /\ DbStep(r)
              /\ ret' = Called("get_links", filter, sort_by, limit, skip, <<>>, 0, r)
        /\ UNCHANGED crawlvars

GetLinkCountCall ==
    /\ UNCHANGED <<pagevars, fetchvars, apivars>>
    /\ ret = NoCall
    /\ \E filter \in Filters :
        /\ \E r \in get_link_count(filter) :
              /\ DbStep(r)
              /\ ret' = Called("get_link_count", filter, <<>>, 0, 0, <<>>, 0, r)
        /\ UNCHANGED crawlvars

DeleteLinksCall ==
    /\ UNCHANGED <<pagevars, fetchvars, apivars>>
    /\ ret = NoCall
    /\ \E filter \in Filters :
        /\ \E r \in delete_links(filter) :
              /\ DbStep(r)
              /\ ret' = Called("delete_links", filter, <<>>, 0, 0, <<>>, 0, r)
        /\ UNCHANGED crawlvars

\* The caller takes the result; the store is called again after that.
ReturnToCaller ==
    /\ UNCHANGED <<pagevars, fetchvars, apivars>>
    /\ ret # NoCall
    /\ ret' = NoCall
    /\ UNCHANGED dbvars
    /\ UNCHANGED crawlvars

StoreNext ==
    \/ SaveLinksCall
    \/ GetLinksCall
    \/ GetLinkCountCall
    \/ DeleteLinksCall
    \/ ReturnToCaller

StoreSpec == StoreInit /\ [][StoreNext]_vars


----------------------------------------------------------------------------
\* ScraperManager.process_url_recursively (main.py): one run on a new manager.

MinScores == {50, 65}
PageCaps  == {2, 100}
Seeds     == {1}

Configs ==
    {[max_depth |-> d, min_score_threshold |-> m, max_links_per_page |-> c,
      use_llm |-> l[1], api_key |-> l[2]] :
        d \in 0..MaxDepthBound, m \in MinScores, c \in PageCaps,
        l \in {<<FALSE, FALSE>>, <<TRUE, FALSE>>, <<TRUE, TRUE>>}}

\* followed: the links of this call that _recursive_process was called for, up
\* to one more than max_follow of them (history)
Frame(url, depth) ==
    [url |-> url, depth |-> depth, at |-> "enter", pending |-> <<>>, followed |-> <<>>]

\* The depth is not looked at.
RecursionStopsAtProcessedOnly(url, depth) == url \in processed_urls

\* if current_depth > self.max_depth or current_url in processed_urls: return
RecursionStops(url, depth) == depth > cfg.max_depth \/ url \in processed_urls

\* The add is forgotten.
AddProcessedForgotten(urls, url) == urls

\* processed_urls.add(current_url)
AddProcessed(urls, url) == urls \cup {url}

\* The list is not cut to max_follow.
LinksToFollowAll(high_value_links) ==
    AtLeast(high_value_links, FollowThreshold(cfg.min_score_threshold))

\* links_to_follow: the first max_follow high-value links at the follow threshold
LinksToFollow(high_value_links) ==
    LET over == AtLeast(high_value_links, FollowThreshold(cfg.min_score_threshold))
    IN  IF Len(over) > MaxFollow THEN SubSeq(over, 1, MaxFollow) ELSE over

\* The loop does not move on to the next link.
RestToFollowStuck(pending) == pending

\* for link in links_to_follow: the links still to recurse into after this one
RestToFollow(pending) == Tail(pending)

Init ==
    /\ DbInit
    /\ connection_string \in {"", "mongodb+srv"}
    /\ server_up
    /\ ret = NoCall
    /\ cfg \in Configs
    /\ web = [u \in URLS |-> Unknown]
    /\ pc = "idle"
    /\ stack = <<>>
    /\ processed_urls = {}
    /\ visited_urls = {}
    /\ total_high_value_links = 0
    /\ result = 0
    /\ now = 0
    /\ runs = 0
    /\ fetched = [u \in URLS |-> 0]
    /\ calls = <<>>
    /\ PageIdle
    /\ FetchIdle
    /\ ApiIdle

\* process_url_recursively(start_url) up to the first _recursive_process call
StartRun ==
    /\ UNCHANGED <<pagevars, fetchvars, apivars>>
    /\ pc = "idle"
    /\ \E start_url \in Seeds :
          stack' = <<Frame(start_url, 0)>>
    /\ pc' = "running"
    /\ runs' = runs + 1
    /\ processed_urls' = {}
    /\ total_high_value_links' = 0
    /\ UNCHANGED <<cfg, web, visited_urls, result, now, fetched, calls, ret>>
    /\ UNCHANGED dbvars

\* _recursive_process returns at its guard
ReturnAtGuard ==
    /\ UNCHANGED <<pagevars, fetchvars, apivars>>
    /\ pc = "running" /\ stack # <<>>
    /\ Head(stack).at = "enter"
    /\ RecursionStops(Head(stack).url, Head(stack).depth)
    /\ stack' = Tail(stack)
    /\ UNCHANGED <<cfg, web, pc, runs, processed_urls, visited_urls,
                   total_high_value_links, result, now, fetched, calls, ret>>
    /\ UNCHANGED dbvars

\* _recursive_process from processed_urls.add to the head of the for loop
ProcessPage ==
    /\ UNCHANGED <<pagevars, fetchvars, apivars>>
    /\ pc = "running" /\ stack # <<>>
    /\ Head(stack).at = "enter"
    /\ ~RecursionStops(Head(stack).url, Head(stack).depth)
    /\ LET url   == Head(stack).url
           depth == Head(stack).depth
           skips == ScrapeSkips(url, depth)
       IN  \E page \in IF web[url] = Unknown THEN Pages(url) ELSE {web[url]} :
           \E reply \in IF cfg.use_llm /\ cfg.api_key /\ scrape(url, depth, page) # <<>>
                        THEN Replies(CapLinks(scrape(url, depth, page)))
                        ELSE {NoReply} :
           \E r \in process_url(url, depth, page, reply) :
              /\ processed_urls' = AddProcessed(processed_urls, url)
              /\ visited_urls' = IF skips THEN visited_urls ELSE visited_urls \cup {url}
              /\ fetched' = IF skips THEN fetched ELSE [fetched EXCEPT ![url] = @ + 1]
              /\ web' = IF skips THEN web ELSE [web EXCEPT ![url] = page]
              /\ now' = now + 1
              /\ collection' = r.coll
              /\ in_memory_links' = r.mem
              /\ total_high_value_links' = total_high_value_links + Len(r.returned)
              /\ calls' = Append(calls, [url |-> url, depth |-> depth,
                                         failure |-> r.failure,
                                         returned |-> Len(r.returned),
                                         cleared |-> r.cleared,
                                         written |-> r.written,
                                         asked |-> r.asked,
                                         scores |-> r.scores,
                                         source |-> r.source,
                                         follow |-> Urls(LinksToFollow(r.returned))])
              /\ stack' = <<[Head(stack) EXCEPT !.at = "loop",
                                !.pending = Urls(LinksToFollow(r.returned))]>>
                          \o Tail(stack)
    /\ UNCHANGED <<cfg, pc, runs, result, ret>>
    /\ UNCHANGED <<connection_string, server_up, connected, has_in_memory_links>>

\* _recursive_process(link['url'], current_depth + 1) for the next link
FollowLink ==
    /\ UNCHANGED <<pagevars, fetchvars, apivars>>
    /\ pc = "running" /\ stack # <<>>
    /\ Head(stack).at = "loop"
    /\ Head(stack).pending # <<>>
    /\ stack' = <<Frame(Head(Head(stack).pending), Head(stack).depth + 1),
                  [Head(stack) EXCEPT !.pending = RestToFollow(@),
                                      !.followed = IF Len(@) <= MaxFollow
                                                   THEN Append(@, Head(Head(stack).pending))
                                                   ELSE @]>>
                \o Tail(stack)
    /\ UNCHANGED <<cfg, web, pc, runs, processed_urls, visited_urls,
                   total_high_value_links, result, now, fetched, calls, ret>>
    /\ UNCHANGED dbvars

\* the for loop is over: _recursive_process returns
ReturnAfterLoop ==
    /\ UNCHANGED <<pagevars, fetchvars, apivars>>
    /\ pc = "running" /\ stack # <<>>
    /\ Head(stack).at = "loop"
    /\ Head(stack).pending = <<>>
    /\ stack' = Tail(stack)
    /\ UNCHANGED <<cfg, web, pc, runs, processed_urls, visited_urls,
                   total_high_value_links, result, now, fetched, calls, ret>>
    /\ UNCHANGED dbvars

\* return total_high_value_links
FinishRun ==
    /\ UNCHANGED <<pagevars, fetchvars, apivars>>
    /\ pc = "running" /\ stack = <<>>
    /\ pc' = "done"
    /\ result' = total_high_value_links
    /\ UNCHANGED <<cfg, web, stack, runs, processed_urls, visited_urls,
                   total_high_value_links, now, fetched, calls, ret>>
    /\ UNCHANGED dbvars

Next ==
    \/ StartRun
    \/ ReturnAtGuard
    \/ ProcessPage
    \/ FollowLink
    \/ ReturnAfterLoop
    \/ FinishRun

Spec == Init /\ [][Next]_vars

\* The run is one thread: it takes its next step whenever it has one.
FairSpec == Spec /\ WF_vars(Next)

\* process_url_recursively(start_url) is called again on the same ScraperManager:
\* processed_urls and the total are new locals, self.scraper and self.db are the
\* objects __init__ made.
RunAgain ==
    /\ UNCHANGED <<pagevars, fetchvars, apivars>>
    /\ pc = "done"
    /\ runs < MaxRuns
    /\ \E start_url \in Seeds :
          stack' = <<Frame(start_url, 0)>>
    /\ pc' = "running"
    /\ runs' = runs + 1
    /\ processed_urls' = {}
    /\ total_high_value_links' = 0
    /\ UNCHANGED <<cfg, web, visited_urls, result, now, fetched, calls, ret>>
    /\ UNCHANGED dbvars

RerunNext == Next \/ RunAgain

\* Several runs on one manager.
RerunSpec == Init /\ [][RerunNext]_vars

----------------------------------------------------------------------------
\* One page through LinkScraper.scrape and the refinement step of process_url
\* (scraper.py, llm_classifier.py, main.py lines 80-89).
\*
\* An extracted link is [url, text, url_words, path_ext, tail]: url is its
\* position on the page, text the words occurring in its text and context,
\* url_words the words occurring in its URL, path_ext whether the URL path ends
\* in a document extension, and tail what follows the path in the URL:
\* "none", "query" (?download=1) or "query_ext" (?file=a.pdf).

TextWords == {"Budget", "Contact", "report"}
UrlWords  == {"budget", "contact", "report"}
Tails     == {"none", "query", "query_ext"}

LinkInfo(url, text, url_words, path_ext, tail) ==
    [url |-> url, text |-> text, url_words |-> url_words,
     path_ext |-> path_ext, tail |-> tail]

\* re.search(r'\.(pdf|doc|docx|xls|xlsx|csv)$', url): the URL string, query
\* included, ends in a document extension.
EndsInDocumentExtension(link_info) ==
    IF link_info.tail = "none" THEN link_info.path_ext
    ELSE link_info.tail = "query_ext"

\* for keyword in self.keywords: +0.2 if in text, +0.15 if in url
RECURSIVE KeywordScore(_, _, _)
KeywordScore(kws, text, url) ==
    IF kws = <<>> THEN 0
    ELSE (IF Lower(Head(kws)) \in text THEN 20 ELSE 0)
         + (IF Lower(Head(kws)) \in url THEN 15 ELSE 0)
         + KeywordScore(Tail(kws), text, url)

\* The score is returned as it was summed.
NormalizeNot(score) == score

\* min(max(score, 0.0), 1.0)
Normalize(score) == Min2(Max2(score, 0), 100)

calculate_relevance_score(link_info, kws) ==
    LET text == LowerAll(link_info.text)
        url  == LowerAll(link_info.url_words)
    IN  Normalize(KeywordScore(kws, text, url)
                  + (IF EndsInDocumentExtension(link_info) THEN 25 ELSE 0)
                  + (IF "contact" \in url \/ "contact" \in text THEN 20 ELSE 0))

\* link['relevance_score'] = self._calculate_relevance_score(link), for each link
ScoreAll(infos, kws) ==
    <<>> \o [i \in 1..Len(infos) |->
                Scored(infos[i].url, calculate_relevance_score(infos[i], kws))]

\* ---- classify_links batch by batch ----

BatchSize == 30     \* batch_size = 30
MaxBatches == 3     \* the longest page of the model fills this many batches
MaxPageLinks == 3   \* the short pages of the model have up to this many links

\* range(0, len(links), batch_size)
NumBatches(links) == (Len(links) + BatchSize - 1) \div BatchSize

\* The batch is not cut at batch_size: it runs to the end of the list.
BatchToTheEnd(links, b) ==
    SubSeq(links, (b - 1) * BatchSize + 1, Len(links))

\* links[i:i+batch_size], for the b-th batch
Batch(links, b) ==
    SubSeq(links, (b - 1) * BatchSize + 1, Min2(b * BatchSize, Len(links)))

\* A line of the response as the service wrote it: [form, n, score, reason].
\* form "ok" is 'Link n: score' or 'Link n: score - reason'; "no_prefix" does
\* not start with 'Link ', "bad_number" and "bad_score" carry a number or a
\* score that int() or float() reject.  reason is 0 (the line has no ' - '),
\* 1 or 2 (a plain text), 3 (text 1, a colon and more text) or 4 (text 1,
\* ' - ' and more text).
RawLine(form, n, score, reason) ==
    [form |-> form, n |-> n, score |-> score, reason |-> reason]

\* score_part = line.split(':')[1]; reason = score_part.split(' - ')[1]: the
\* reason ends at its first colon and at its first ' - '.
ReasonKept(reason) == IF reason \in {3, 4} THEN 1 ELSE reason

\* The lines that pass startswith('Link '), int() and float(), as parsed.
RECURSIVE ParseLines(_)
ParseLines(raw) ==
    IF raw = <<>> THEN <<>>
    ELSE (IF Head(raw).form = "ok"
          THEN << [n |-> Head(raw).n, score |-> Head(raw).score,
                   reason |-> ReasonKept(Head(raw).reason)] >>
          ELSE <<>>)
         \o ParseLines(Tail(raw))

\* The failed batch is left out of the result.
FailedBatchDropped(batch) == <<>>

\* except Exception: classified_links.extend(batch)
FailedBatch(batch) == batch

\* One turn of the loop of classify_links: what is appended to classified_links.
ClassifiedBatch(batch, reply) ==
    IF ~reply.ok THEN FailedBatch(batch)
    ELSE ParseClassificationResponse(batch, ParseLines(reply.lines))

\* The responses of the service for a batch.
RawReplies(batch) ==
    { [ok |-> FALSE, lines |-> <<>>],
      [ok |-> TRUE, lines |-> << RawLine("ok", 1, 95, 1) >>],
      [ok |-> TRUE, lines |-> << RawLine("ok", Len(batch), 0, 2),
                                 RawLine("ok", 1, 100, 0) >>],
      \* lines to skip: index and score out of range, not a line of the format
      [ok |-> TRUE, lines |-> << RawLine("ok", 1, 10, 1),
                                 RawLine("ok", Len(batch) + 1, 95, 2),
                                 RawLine("ok", 0, 95, 2),
                                 RawLine("ok", 1, 150, 2),
                                 RawLine("ok", 1, -10, 2),
                                 RawLine("bad_number", 1, 95, 2),
                                 RawLine("bad_score", 1, 95, 2),
                                 RawLine("no_prefix", 1, 95, 2) >>],
      [ok |-> TRUE, lines |-> << RawLine("ok", 1, 90, 3) >>],
      [ok |-> TRUE, lines |-> << RawLine("ok", 1, 90, 4) >>] }

\* The key is taken to be there.
HasApiKeyAlways(api_key) == TRUE

\* if not self.api_key: return links
HasApiKey(api_key) == api_key

\* if self.use_llm and self.classifier and links: classifier is None without use_llm
CallsClassifier(use_llm, links) == use_llm /\ links # <<>>

\* ---- the pages and settings of the model ----

KeywordLists == { <<"Budget">>, <<"Budget", "Contact">>, <<"Budget", "Contact", "Report">> }

SampleInfos(url) ==
    { LinkInfo(url, {}, {}, FALSE, "none"),
      LinkInfo(url, {"Budget"}, {}, FALSE, "none"),
      LinkInfo(url, {"Budget"}, {"budget"}, TRUE, "none") }

\* A long page: the i-th link is one of three kinds, by turns.
LongPage(n) ==
    [i \in 1..n |->
        LinkInfo(i, IF i % 3 = 0 THEN {} ELSE {"Budget"},
                 IF i % 3 = 1 THEN {"budget"} ELSE {}, FALSE, "none")]

ExtractedPages ==
    { <<>> }
    \cup { << LinkInfo(1, t, u, e, q) >> :
              t \in SUBSET TextWords, u \in SUBSET UrlWords, e \in BOOLEAN, q \in Tails }
    \cup UNION { { p \in [1..n -> UNION {SampleInfos(i) : i \in 1..n}] :
                     \A i \in 1..n : p[i].url = i } : n \in 2..MaxPageLinks }
    \cup { LongPage((b - 1) * BatchSize + 1) : b \in 2..MaxBatches }

PageConfigs ==
    {[max_depth |-> 0, min_score_threshold |-> 50, max_links_per_page |-> c,
      use_llm |-> l[1], api_key |-> l[2]] :
        c \in PageCaps, l \in BOOLEAN \X BOOLEAN}

PageInit ==
    /\ DbInit /\ connection_string = "" /\ ~server_up
    /\ ret = NoCall
    /\ cfg \in PageConfigs
    /\ web = [u \in URLS |-> Unknown]
    /\ pc = "idle"
    /\ stack = <<>>
    /\ processed_urls = {}
    /\ visited_urls = {}
    /\ total_high_value_links = 0
    /\ result = 0
    /\ now = 0
    /\ runs = 0
    /\ fetched = [u \in URLS |-> 0]
    /\ calls = <<>>
    /\ keywords \in KeywordLists
    /\ all_links = <<>>
    /\ sorted_links = <<>>
    /\ links_to_refine = <<>>
    /\ batch_idx = 0
    /\ classified_links = <<>>
    /\ submitted = <<>>
    /\ refined_links = <<>>
    /\ ppc = "idle"
    /\ FetchIdle
    /\ ApiIdle

\* scrape(url, 0) of a page that was fetched: extraction, scoring and sort
ScrapePage ==
    /\ ppc = "idle"
    /\ \E page \in ExtractedPages :
          /\ all_links' = <<>> \o page
          /\ sorted_links' = scrape(1, 0, [status |-> "ok",
                                           links |-> ScoreAll(<<>> \o page, keywords)])
    /\ ppc' = "scraped"
    /\ UNCHANGED <<keywords, links_to_refine, batch_idx, classified_links,
                   submitted, refined_links>>
    /\ UNCHANGED <<dbvars, ret, crawlvars, fetchvars, apivars>>

\* process_url from the cut to max_links_per_page to the first batch of
\* classify_links, or past step 2 when the classifier is not called or has no key
StartRefinement ==
    /\ ppc = "scraped"
    /\ links_to_refine' = CapLinks(sorted_links)
    /\ batch_idx' = 0
    /\ classified_links' = <<>>
    /\ IF CallsClassifier(cfg.use_llm, CapLinks(sorted_links)) /\ HasApiKey(cfg.api_key)
       THEN ppc' = "loop" /\ refined_links' = <<>>
       ELSE ppc' = "refined" /\ refined_links' = CapLinks(sorted_links)
    /\ UNCHANGED <<keywords, all_links, sorted_links, submitted>>
    /\ UNCHANGED <<dbvars, ret, crawlvars, fetchvars, apivars>>

\* one turn of the loop over link_batches: the request and what it appends
ClassifyBatch ==
    /\ ppc = "loop"
    /\ batch_idx < NumBatches(links_to_refine)
    /\ LET batch == Batch(links_to_refine, batch_idx + 1)
       IN  \E reply \in RawReplies(batch) :
              /\ classified_links' = classified_links \o ClassifiedBatch(batch, reply)
              /\ submitted' = Append(submitted, [first |-> batch_idx * BatchSize + 1,
                                                 size |-> Len(batch),
                                                 reply |-> reply])
    /\ batch_idx' = batch_idx + 1
    /\ UNCHANGED <<keywords, all_links, sorted_links, links_to_refine, refined_links, ppc>>
    /\ UNCHANGED <<dbvars, ret, crawlvars, fetchvars, apivars>>

\* return classified_links, and process_url's links = ...
ClassifyReturn ==
    /\ ppc = "loop"
    /\ batch_idx = NumBatches(links_to_refine)
    /\ refined_links' = classified_links
    /\ ppc' = "refined"
    /\ UNCHANGED <<keywords, all_links, sorted_links, links_to_refine, batch_idx,
                   classified_links, submitted>>
    /\ UNCHANGED <<dbvars, ret, crawlvars, fetchvars, apivars>>

PageNext ==
    \/ ScrapePage
    \/ StartRefinement
    \/ ClassifyBatch
    \/ ClassifyReturn

PageSpec == PageInit /\ [][PageNext]_vars

----------------------------------------------------------------------------
\* LinkScraper._get_page_content and its three strategies (scraper.py).
\*
\* What a strategy meets is [kind, body]: kind "200" with the body the server
\* sent (0 is the empty body, a positive number a page text), "non200",
\* "network_error", "timeout", or "other_exception" (an exception that is not a
\* requests.RequestException).

Strategies == <<"requests", "urllib3", "http.client">>

Schemes == {"http", "https"}

TryOutcomes(i) ==
    { [kind |-> "200", body |-> 0],
      [kind |-> "200", body |-> i],
      [kind |-> "non200", body |-> 0],
      [kind |-> "network_error", body |-> 0],
      [kind |-> "timeout", body |-> 0],
      [kind |-> "other_exception", body |-> 0] }

\* except requests.RequestException in _try_requests_with_headers,
\* except Exception in _try_urllib3 and _try_http_client
Caught(strategy, kind) ==
    IF strategy = "requests" THEN kind \in {"network_error", "timeout"}
    ELSE TRUE

\* One _try_* call: [content, raised].
TryResult(strategy, outcome) ==
    IF outcome.kind = "200" THEN [content |-> outcome.body, raised |-> FALSE]
    ELSE IF outcome.kind = "non200" THEN [content |-> None, raised |-> FALSE]
    ELSE [content |-> None, raised |-> ~Caught(strategy, outcome.kind)]

\* No content counts: every strategy is tried.
TruthyNever(content) == FALSE

\* if html_content: neither None nor the empty string
Truthy(content) == content # None /\ content # 0

FetchInit ==
    /\ DbInit /\ connection_string = "" /\ ~server_up
    /\ ret = NoCall
    /\ CrawlIdle
    /\ PageIdle
    /\ FetchIdle
    /\ ApiIdle

\* _get_page_content(url) is called
GetPageContent ==
    /\ fpc = "idle"
    /\ scheme' \in Schemes
    /\ fpc' = Strategies[1]
    /\ UNCHANGED <<attempts, html_content>>
    /\ UNCHANGED <<dbvars, ret, crawlvars, pagevars, apivars>>

\* What _get_page_content does with the result of its i-th strategy: it returns
\* the content, goes on to the next strategy or, after the last, returns None.
AfterTry(i, outcome) ==
    LET r == TryResult(Strategies[i], outcome)
    IN  /\ attempts' = Append(attempts, [strategy |-> Strategies[i], outcome |-> outcome])
        /\ IF r.raised
           THEN fpc' = "raised" /\ html_content' = html_content
           ELSE IF Truthy(r.content)
           THEN fpc' = "returned" /\ html_content' = r.content
           ELSE IF i < Len(Strategies)
           THEN fpc' = Strategies[i + 1] /\ html_content' = html_content
           ELSE fpc' = "returned" /\ html_content' = None

\* html_content = self._try_requests_with_headers(url)
TryRequestsWithHeaders ==
    /\ fpc = "requests"
    /\ \E outcome \in TryOutcomes(1) : AfterTry(1, outcome)
    /\ UNCHANGED scheme
    /\ UNCHANGED <<dbvars, ret, crawlvars, pagevars, apivars>>

\* html_content = self._try_urllib3(url)
TryUrllib3 ==
    /\ fpc = "urllib3"
    /\ \E outcome \in TryOutcomes(2) : AfterTry(2, outcome)
    /\ UNCHANGED scheme
    /\ UNCHANGED <<dbvars, ret, crawlvars, pagevars, apivars>>

\* html_content = self._try_http_client(url)
TryHttpClient ==
    /\ fpc = "http.client"
    /\ \E outcome \in TryOutcomes(3) : AfterTry(3, outcome)
    /\ UNCHANGED scheme
    /\ UNCHANGED <<dbvars, ret, crawlvars, pagevars, apivars>>

FetchNext ==
    \/ GetPageContent
    \/ TryRequestsWithHeaders
    \/ TryUrllib3
    \/ TryHttpClient

FetchSpec == FetchInit /\ [][FetchNext]_vars

----------------------------------------------------------------------------
\* The HTTP interface (api.py): start_scrape, the background task it queues and
\* get_task_status.  The handlers run on the event loop and every background
\* task in a worker thread after the response of its request was sent, so the
\* steps of different calls interleave.

\* link_count: what process_url_recursively may return
LinkCounts == {0, 2}

\* active_tasks[task_id] = record
SetTask(tasks, task_id, record) ==
    [t \in DOMAIN tasks \cup {task_id} |-> IF t = task_id THEN record ELSE tasks[t]]

\* A task record; "start_time" is a field of every record the code writes,
\* "link_count", "error" and "end_time" of some.
RunningRecord == [status |-> "running", start_time |-> "set"]
CompletedRecord(link_count, start_time) ==
    [status |-> "completed", link_count |-> link_count,
     start_time |-> start_time, end_time |-> "set"]
FailedRecord(error, start_time) ==
    [status |-> "failed", error |-> error,
     start_time |-> start_time, end_time |-> "set"]

\* What a run saved: as many links as it reports, none of them when it found none.
RunSaves(link_count) ==
    IF link_count = 0 THEN {<<>>}
    ELSE {<< Link(1, 80), Link(2, 80) >>, << Link(2, 30), Link(1, 30) >>}

\* The save_links calls of a run, on the LinkDatabase the manager made: the
\* collection when it is connected, its own _in_memory_links when it is not.
CollectionAfterRun(saved) ==
    IF connected THEN BulkWrite(collection, WithSource(saved, 1), Len(saved))
    ELSE collection

ManagerLinksAfterRun(task_id, saved) ==
    IF connected THEN manager_links
    ELSE [manager_links EXCEPT ![task_id] = @ \o WithSource(saved, 1)]

\* get_db: db = LinkDatabase(), a new object for every request; without a
\* connection its _in_memory_links is the empty list _setup_in_memory made.
GetDbLinks(filter, sort_by, limit, skip) ==
    IF connected
    THEN Find(collection, filter, sort_by, limit, skip)
    ELSE {r.out : r \in FilterInMemoryLinks(<<>>, filter, sort_by, limit, skip)}

ApiInit ==
    /\ DbInit
    /\ \/ connection_string = "" /\ ~server_up
       \/ connection_string = "mongodb+srv" /\ server_up
    /\ ret = NoCall
    /\ CrawlIdle
    /\ PageIdle
    /\ active_tasks = [t \in {} |-> NoResponse]
    /\ bg = [t \in TaskIds |-> "none"]
    /\ status_response = NoResponse
    /\ manager_links = [t \in TaskIds |-> <<>>]
    /\ task_saved = [t \in TaskIds |-> {}]
    /\ links_response = NoResponse
    /\ FetchIdle

\* POST /scrape: the task is handed to background_tasks and the task_id returned
start_scrape ==
    /\ \E task_id \in TaskIds :
          /\ bg[task_id] = "none"
          /\ \A t \in TaskIds : t < task_id => bg[t] # "none"
          /\ bg' = [bg EXCEPT ![task_id] = "queued"]
    /\ UNCHANGED <<active_tasks, status_response, manager_links, task_saved, links_response>>
    /\ UNCHANGED <<dbvars, ret, crawlvars, pagevars, fetchvars>>

\* scrape_in_background: ScraperManager(...) is built and the task recorded as running
BgStart ==
    /\ \E task_id \in TaskIds :
          /\ bg[task_id] = "queued"
          /\ active_tasks' = SetTask(active_tasks, task_id, RunningRecord)
          /\ bg' = [bg EXCEPT ![task_id] = "running"]
    /\ UNCHANGED <<status_response, manager_links, task_saved, links_response>>
    /\ UNCHANGED <<dbvars, ret, crawlvars, pagevars, fetchvars>>

\* scrape_in_background: ScraperManager(...) raises
BgConstructRaises ==
    /\ \E task_id \in TaskIds :
          /\ bg[task_id] = "queued"
          /\ bg' = [bg EXCEPT ![task_id] = "except"]
    /\ UNCHANGED <<active_tasks, status_response, manager_links, task_saved, links_response>>
    /\ UNCHANGED <<dbvars, ret, crawlvars, pagevars, fetchvars>>

\* scrape_in_background: process_url_recursively returns and the task is
\* recorded as completed
BgCompleted ==
    /\ \E task_id \in TaskIds, link_count \in LinkCounts :
       \E saved \in RunSaves(link_count) :
          /\ bg[task_id] = "running"
          /\ collection' = CollectionAfterRun(saved)
          /\ manager_links' = ManagerLinksAfterRun(task_id, saved)
          /\ task_saved' = [task_saved EXCEPT ![task_id] = Range(Urls(saved))]
          /\ active_tasks' = SetTask(active_tasks, task_id,
                                     CompletedRecord(link_count,
                                                     active_tasks[task_id].start_time))
          /\ bg' = [bg EXCEPT ![task_id] = "finally"]
    /\ UNCHANGED <<status_response, links_response>>
    /\ UNCHANGED <<connection_string, server_up, connected, has_in_memory_links,
                   in_memory_links>>
    /\ UNCHANGED <<ret, crawlvars, pagevars, fetchvars>>

\* scrape_in_background: process_url_recursively raises, after the saves it made
BgRunRaises ==
    /\ \E task_id \in TaskIds, link_count \in LinkCounts :
       \E saved \in RunSaves(link_count) :
          /\ bg[task_id] = "running"
          /\ collection' = CollectionAfterRun(saved)
          /\ manager_links' = ManagerLinksAfterRun(task_id, saved)
          /\ task_saved' = [task_saved EXCEPT ![task_id] = Range(Urls(saved))]
          /\ bg' = [bg EXCEPT ![task_id] = "except"]
    /\ UNCHANGED <<active_tasks, status_response, links_response>>
    /\ UNCHANGED <<connection_string, server_up, connected, has_in_memory_links,
                   in_memory_links>>
    /\ UNCHANGED <<ret, crawlvars, pagevars, fetchvars>>

\* scrape_in_background, except Exception: the record is built from
\* active_tasks[task_id]["start_time"], a KeyError when the task has no record
BgExcept ==
    /\ \E task_id \in TaskIds :
          /\ bg[task_id] = "except"
          /\ IF task_id \in DOMAIN active_tasks
             THEN /\ active_tasks' = SetTask(active_tasks, task_id,
                                             FailedRecord("str(e)",
                                                          active_tasks[task_id].start_time))
                  /\ bg' = [bg EXCEPT ![task_id] = "finally"]
             ELSE /\ active_tasks' = active_tasks
                  /\ bg' = [bg EXCEPT ![task_id] = "finally_raising"]
    /\ UNCHANGED <<status_response, manager_links, task_saved, links_response>>
    /\ UNCHANGED <<dbvars, ret, crawlvars, pagevars, fetchvars>>

\* scrape_in_background, finally: the manager is closed and the call returns,
\* or the exception of the except branch leaves the call
BgFinally ==
    /\ \E task_id \in TaskIds :
          /\ bg[task_id] \in {"finally", "finally_raising"}
          /\ bg' = [bg EXCEPT ![task_id] = IF bg[task_id] = "finally"
                                           THEN "returned" ELSE "crashed"]
    /\ UNCHANGED <<active_tasks, status_response, manager_links, task_saved, links_response>>
    /\ UNCHANGED <<dbvars, ret, crawlvars, pagevars, fetchvars>>

\* GET /tasks/{task_id}; known records whether start_scrape had returned this
\* task_id when the request was made (history)
get_task_status ==
    /\ \E task_id \in TaskIds :
          status_response' =
             IF task_id \notin DOMAIN active_tasks
             THEN [code |-> 404, detail |-> "Task not found",
                   task_id |-> task_id, known |-> bg[task_id] # "none"]
             ELSE [code |-> 200, task |-> active_tasks[task_id],
                   task_id |-> task_id, known |-> bg[task_id] # "none"]
    /\ UNCHANGED <<active_tasks, bg, manager_links, task_saved, links_response>>
    /\ UNCHANGED <<dbvars, ret, crawlvars, pagevars, fetchvars>>

\* GET /links with no filter and the default sort, limit and skip, on the
\* LinkDatabase get_db makes for the request; ended records the tasks whose
\* run had ended when the request was made (history)
GetLinksRequest ==
    /\ \E out \in GetDbLinks({}, << <<"relevance_score", -1>> >>, DefaultLimit, 0) :
          links_response' =
             [code |-> 200, out |-> out,
              ended |-> {t \in DOMAIN active_tasks :
                           active_tasks[t].status \in {"completed", "failed"}}]
    /\ UNCHANGED <<active_tasks, bg, status_response, manager_links, task_saved>>
    /\ UNCHANGED <<dbvars, ret, crawlvars, pagevars, fetchvars>>

\* a step of the background task of one request
BgStep(task_id) ==
    /\ \/ BgStart
       \/ BgConstructRaises
       \/ BgCompleted
       \/ BgRunRaises
       \/ BgExcept
       \/ BgFinally
    /\ bg'[task_id] # bg[task_id]

ApiNext ==
    \/ start_scrape
    \/ BgStart
    \/ BgConstructRaises
    \/ BgCompleted
    \/ BgRunRaises
    \/ BgExcept
    \/ BgFinally
    \/ get_task_status
    \/ GetLinksRequest

ApiSpec == ApiInit /\ [][ApiNext]_vars

\* Every queued background task is run, and runs to the end of its call.
ApiFairSpec == ApiSpec /\ \A task_id \in TaskIds : WF_vars(BgStep(task_id))

----------------------------------------------------------------------------
\* Claims about the store.

\* What a caller reads as "the store": the collection when connected, else the list.
StoredWithUrl(u) ==
    IF connected THEN Cardinality({d \in collection : d["url"] = u})
    ELSE Cardinality({i \in 1..Len(in_memory_links) : in_memory_links[i]["url"] = u})

CarriesFields(rec, link, source_url) ==
    /\ \A f \in DOMAIN link : f \in DOMAIN rec /\ rec[f] = link[f]
    /\ rec["source_url"] = source_url

\* C3: upsert law, for either backing: after save_links returned for a record
\* with url u (whatever was saved before), the store holds exactly one record
\* with url u and it carries the field values of this write.
C3_UpsertLaw ==
    (ret.op = "save_links" /\ ret.exc = "none" /\ ret.net # "error" /\ Len(ret.links) = 1)
    => /\ StoredWithUrl(ret.links[1]["url"]) = 1
       /\ IF connected
          THEN \A d \in collection :
                  d["url"] = ret.links[1]["url"]
                  => CarriesFields(d, ret.links[1], ret.source_url)
          ELSE \A i \in 1..Len(in_memory_links) :
                  in_memory_links[i]["url"] = ret.links[1]["url"]
                  => CarriesFields(in_memory_links[i], ret.links[1], ret.source_url)

\* C29: the network save_links is an insert-or-replace keyed on url: after it
\* returned, the record stored for a saved url holds exactly the fields just
\* saved; a field of an older record of that url (llm_reason) is gone.
C29_SaveReplaces ==
    (ret.op = "save_links" /\ connected /\ ret.exc = "none" /\ ret.net = "ok")
    => LET link == ret.links[Len(ret.links)]
       IN  \A d \in collection :
              d["url"] = link["url"]
              => /\ DOMAIN d = DOMAIN link \cup {"source_url"}
                 /\ CarriesFields(d, link, ret.source_url)

\* C30 as stated: the store is the in-memory one exactly when no connection
\* string is configured or the initial connection failed; a configured string
\* with a reachable server gives the network backing.
C30_InMemoryIffNoneOrFailed ==
    /\ ~connected <=> (connection_string = "" \/ ~server_up)
    /\ has_in_memory_links <=> ~connected

\* C30 as amended: the store is the in-memory one exactly when no connection
\* string is configured, the configured string does not start with
\* 'mongodb+srv://' (no connection is attempted), or the initial connection
\* failed; a mongodb+srv:// string with a reachable server gives the network
\* backing.
C30_InMemoryIffNoneNotSrvOrFailed ==
    /\ ~connected <=> \/ connection_string = ""
                      \/ connection_string # "mongodb+srv"
                      \/ ~server_up
    /\ has_in_memory_links <=> ~connected

\* A plain mongodb:// string and a server that answers: a save went to the
\* in-memory list.
C30_Witness ==
    /\ connection_string = "mongodb"
    /\ server_up
    /\ ~connected
    /\ ret.op = "save_links"
    /\ ret.net = "unused"
    /\ in_memory_links # <<>>
    /\ collection = {}

\* The record has the keyword in its text or in its context (letter case aside).
ContainsKeyword(rec, keyword) ==
    \E f \in {"text", "context"} :
        f \in DOMAIN rec /\ Lower(keyword) \in LowerAll(rec[f])

\* C31: get_links and get_link_count with the keyword filter of the interface
\* return (count) the stored records whose text or context contains the
\* keyword, in the network backing and in the in-memory backing alike.
C31_KeywordSameInBothBackings ==
    \A keyword \in Keywords :
        (ret.filter = KeywordFilter(keyword) /\ ret.exc = "none" /\ ret.net # "error")
        => /\ (ret.op = "get_links" /\ ret.skip = 0 /\ ret.limit = CountLimit)
                 => Range(ret.out) =
                       {rec \in IF connected THEN collection ELSE Range(in_memory_links) :
                           ContainsKeyword(rec, keyword)}
           /\ ret.op = "get_link_count"
                 => ret.out = IF connected
                              THEN Cardinality({d \in collection :
                                                   ContainsKeyword(d, keyword)})
                              ELSE Len(SelectSeq(in_memory_links,
                                                 LAMBDA rec : ContainsKeyword(rec, keyword)))

\* C33: reads do not modify the store: in the in-memory backing get_links and
\* get_link_count leave the stored list as it is, records and order, for every
\* filter, the empty one included.
C33_ReadsLeaveStore ==
    [][(ret'.op \in {"get_links", "get_link_count"} /\ ~connected)
       => in_memory_links' = in_memory_links]_vars

\* C6: after a successful initial connection, a save_links, get_links or
\* get_link_count whose call to the collection fails with a store error still
\* returns a result: no exception reaches the caller.
C6_FallbackReturns ==
    (ret.op \in {"save_links", "get_links", "get_link_count"} /\ ret.net = "error")
    => ret.exc = "none"

\* A record satisfies a filter when it satisfies every key of it.
Satisfies(rec, filter) == \A c \in filter : KeepIn(rec, c)

\* C7: in the in-memory backing, delete_links with a non-empty filter removes
\* exactly the records that satisfy every key of the filter, returns their
\* number and leaves every other record.
C7_DeleteExactlyMatching ==
    [][(ret'.op = "delete_links" /\ ~connected /\ ret'.filter # {})
       => /\ in_memory_links' =
               SelectSeq(in_memory_links, LAMBDA rec : ~Satisfies(rec, ret'.filter))
          /\ ret'.out = Len(SelectSeq(in_memory_links,
                                      LAMBDA rec : Satisfies(rec, ret'.filter)))]_vars

\* a comes no later than b under the sort (a missing field counts as 0).
RECURSIVE NoLater(_, _, _)
NoLater(a, b, sort_by) ==
    IF sort_by = <<>> THEN TRUE
    ELSE LET ka == SortKey(a, Head(sort_by)[1])
             kb == SortKey(b, Head(sort_by)[1])
         IN  IF ka = kb THEN NoLater(a, b, Tail(sort_by))
             ELSE IF Head(sort_by)[2] = -1 THEN ka > kb ELSE ka < kb

IsOrdered(list, sort_by) ==
    \A i, j \in 1..Len(list) : i < j => NoLater(list[i], list[j], sort_by)

\* Positions skip .. skip+limit-1 (counted from 0) of a list.
Window(list, skip, limit) ==
    IF limit <= 0 \/ skip >= Len(list) THEN <<>>
    ELSE SubSeq(list, skip + 1, Min2(skip + limit, Len(list)))

\* C8: in the in-memory backing, get_links(filter, sort, limit, skip) returns
\* exactly the records satisfying every filter key, ordered by the sort fields
\* in the requested direction, restricted to positions skip .. skip+limit-1.
C8_GetLinksExact ==
    [][(ret'.op = "get_links" /\ ~connected)
       => /\ ret'.exc = "none"
          /\ \E ordered \in Perms(SelectSeq(in_memory_links,
                                            LAMBDA rec : Satisfies(rec, ret'.filter))) :
                /\ IsOrdered(ordered, SortOrDefault(ret'.sort_by))
                /\ ret'.out = Window(ordered, ret'.skip, ret'.limit)]_vars

\* C9: for every filter and store state, get_link_count(filter) equals the
\* number of records get_links(filter) returns with skip 0 and an unbounded limit.
C9_CountEqualsQuery ==
    ret.op = "get_link_count"
    => /\ ret.exc = "none"
       /\ \A r \in get_links(ret.filter, <<>>, CountLimit, 0) :
             r.exc = "none" /\ Len(r.out) = ret.out

\* C10: get_links({}, limit=L) returns at most L records, for every store
\* state, skip and limit the interface accepts.
C10_AtMostLimit ==
    (ret.op = "get_links" /\ ret.filter = {} /\ ret.exc = "none")
    => Len(ret.out) <= Max2(ret.limit, 0)

\* C11: delete_links with an empty filter returns 0 and leaves the store as it
\* was, in the network backing and in the in-memory backing.
C11_EmptyFilterNoOp ==
    [][(ret'.op = "delete_links" /\ ret'.filter = {})
       => /\ ret'.out = 0 /\ ret'.exc = "none"
          /\ collection' = collection
          /\ in_memory_links' = in_memory_links]_vars

\* delete_links({}) has returned on a connected store that holds documents.
C11_Witness ==
    /\ ret.op = "delete_links" /\ ret.filter = {}
    /\ connected /\ collection # {}

\* C12: when the store was unreachable or unconfigured at construction, every
\* record save_links has just written is returned by the following
\* get_links(filter) of the same LinkDatabase, for every filter the record
\* satisfies, with the fields it was saved with and the source_url of the save.
C12_RoundTrip ==
    (ret.op = "save_links" /\ ~connected)
    => /\ ret.exc = "none"
       /\ \A i \in 1..Len(ret.links) : \A filter \in Filters :
             Satisfies(WithSource(ret.links, ret.source_url)[i], filter)
             => \A r \in get_links(filter, <<>>, DefaultLimit, 0) :
                   /\ r.exc = "none"
                   /\ \E k \in 1..Len(r.out) :
                         CarriesFields(r.out[k], ret.links[i], ret.source_url)

\* A refined record saved after an earlier one, the server having been down
\* when the LinkDatabase was constructed.
C12_Witness ==
    /\ ret.op = "save_links" /\ ~connected
    /\ connection_string = "mongodb+srv" /\ ~server_up
    /\ Len(in_memory_links) > Len(ret.links)
    /\ "llm_reason" \in DOMAIN ret.links[1]

----------------------------------------------------------------------------
\* Claims about scoring, the order of scrape and the refinement step.

\* C13: every score _calculate_relevance_score returns lies in [0.0, 1.0], for
\* every link and keyword list, and so does every relevance_score on its way
\* to the store, heuristic or refined.
C13_ScoreInRange ==
    \A l \in Range(sorted_links) \cup Range(classified_links) \cup Range(refined_links) :
        0 <= l["relevance_score"] /\ l["relevance_score"] <= 100

\* A link whose bonuses sum to more than 1.0 went through a refinement whose
\* response carried a score above 1.0.
C13_Witness ==
    /\ ppc = "refined"
    /\ Len(all_links) = 1
    /\ KeywordScore(keywords, LowerAll(all_links[1].text),
                    LowerAll(all_links[1].url_words)) > 100
    /\ \E b \in 1..Len(submitted) : \E k \in 1..Len(submitted[b].reply.lines) :
          /\ submitted[b].reply.lines[k].form = "ok"
          /\ submitted[b].reply.lines[k].n = 1
          /\ submitted[b].reply.lines[k].score > 100

\* The score as the specification gives it: the document bonus goes to a URL
\* whose path ends in a document extension.
ClaimedScore(link_info, kws) ==
    Min2(100,
         20 * Cardinality({k \in 1..Len(kws) : Lower(kws[k]) \in LowerAll(link_info.text)})
         + 15 * Cardinality({k \in 1..Len(kws) :
                               Lower(kws[k]) \in LowerAll(link_info.url_words)})
         + (IF link_info.path_ext THEN 25 ELSE 0)
         + (IF "contact" \in LowerAll(link_info.url_words)
               \/ "contact" \in LowerAll(link_info.text) THEN 20 ELSE 0))

\* C14: the heuristic score of a link is min(1.0, 0.20 per keyword occurring in
\* its lower-cased text and context + 0.15 per keyword occurring in its
\* lower-cased URL + 0.25 if the URL path ends in a document extension + 0.20
\* if 'contact' occurs in the URL or the text); a link matching none of these
\* scores 0.0.
C14_HeuristicFormula ==
    \A i \in 1..Len(sorted_links) :
        sorted_links[i]["relevance_score"]
            = ClaimedScore(all_links[sorted_links[i]["url"]], keywords)

\* C15: scrape returns the links of the page in order of non-increasing
\* relevance_score, and links of equal score in the order of their extraction.
C15_SortedStable ==
    ppc # "idle"
    => /\ Len(sorted_links) = Len(all_links)
       /\ \A i \in 1..Len(sorted_links) :
             /\ sorted_links[i]["url"] \in 1..Len(all_links)
             /\ sorted_links[i]["relevance_score"]
                   = calculate_relevance_score(all_links[sorted_links[i]["url"]], keywords)
       /\ \A i, j \in 1..Len(sorted_links) :
             i < j => /\ sorted_links[i]["relevance_score"] >= sorted_links[j]["relevance_score"]
                      /\ sorted_links[i]["relevance_score"] = sorted_links[j]["relevance_score"]
                         => sorted_links[i]["url"] < sorted_links[j]["url"]

\* A page whose links scrape moved, two of them having the same score.
C15_Witness ==
    /\ ppc = "scraped"
    /\ \E i, j \in 1..Len(sorted_links) :
          i < j /\ sorted_links[i]["relevance_score"] = sorted_links[j]["relevance_score"]
    /\ \E k \in 1..Len(sorted_links) : sorted_links[k]["url"] # k

\* The effect of one line as the specification gives it.
ClaimedLine(batch, raw) ==
    IF /\ raw.form = "ok"
       /\ 1 <= raw.n /\ raw.n <= Len(batch)
       /\ 0 <= raw.score /\ raw.score <= 100
    THEN [batch EXCEPT ![raw.n] =
            IF raw.reason = 0
            THEN [@ EXCEPT !["relevance_score"] = raw.score]
            ELSE [f \in DOMAIN @ \cup {"llm_reason"} |->
                     IF f = "relevance_score" THEN raw.score
                     ELSE IF f = "llm_reason" THEN raw.reason ELSE @[f]]]
    ELSE batch

RECURSIVE ClaimedParse(_, _)
ClaimedParse(batch, raw) ==
    IF raw = <<>> THEN batch
    ELSE ClaimedParse(ClaimedLine(batch, Head(raw)), Tail(raw))

\* The part of a list that belongs to a request.
Slice(list, request) == SubSeq(list, request.first, request.first + request.size - 1)

\* C16: in _parse_classification_response a line 'Link n: s - r' changes a
\* link only if n indexes a link of the batch and s lies in [0.0, 1.0]; then
\* the n-th link gets exactly the score s and the reason r.  Every other line
\* changes nothing, and the batch comes back with the same links in the same
\* order, every unmatched link as it was.
C16_ParseExact ==
    \A b \in 1..Len(submitted) :
        submitted[b].reply.ok
        => Slice(classified_links, submitted[b])
              = ClaimedParse(Slice(links_to_refine, submitted[b]), submitted[b].reply.lines)

\* C17: when the service call of a batch fails, classify_links returns the
\* links of that batch unmodified, submits every later batch all the same, and
\* its result holds every input link once, in input order.
C17_FailedBatchKept ==
    (ppc = "refined" /\ CallsClassifier(cfg.use_llm, links_to_refine) /\ cfg.api_key)
    => /\ Len(submitted) = NumBatches(links_to_refine)
       /\ \A b \in 1..Len(submitted) : submitted[b].first = (b - 1) * BatchSize + 1
       /\ Urls(refined_links) = Urls(links_to_refine)
       /\ \A b \in 1..Len(submitted) :
             ~submitted[b].reply.ok
             => Slice(refined_links, submitted[b]) = Slice(links_to_refine, submitted[b])

\* The first batch failed and a later batch was submitted and refined.
C17_Witness ==
    /\ ppc = "refined"
    /\ Len(submitted) > 1
    /\ ~submitted[1].reply.ok
    /\ \E b \in 2..Len(submitted) :
          /\ submitted[b].reply.ok
          /\ Slice(refined_links, submitted[b]) # Slice(links_to_refine, submitted[b])

\* C32: classify_links cuts its input into consecutive batches of at most 30
\* links: every link is in exactly one batch, one request is made per batch,
\* and a line 'Link n' of a response changes at most the n-th link of the
\* batch the response is for, never a link of another batch.
C32_BatchesPartition ==
    (ppc = "refined" /\ CallsClassifier(cfg.use_llm, links_to_refine) /\ cfg.api_key)
    => /\ Len(submitted) * 30 >= Len(links_to_refine)
       /\ (Len(submitted) - 1) * 30 < Len(links_to_refine)
       /\ Len(refined_links) = Len(links_to_refine)
       /\ \A b \in 1..Len(submitted) :
             /\ submitted[b].size >= 1 /\ submitted[b].size <= 30
             /\ submitted[b].first =
                   IF b = 1 THEN 1 ELSE submitted[b - 1].first + submitted[b - 1].size
             /\ b = Len(submitted)
                   => submitted[b].first + submitted[b].size - 1 = Len(links_to_refine)
             /\ \A k \in 1..submitted[b].size :
                   LET i == submitted[b].first + k - 1
                   IN  refined_links[i] # links_to_refine[i]
                       => /\ submitted[b].reply.ok
                          /\ \E l \in 1..Len(submitted[b].reply.lines) :
                                /\ submitted[b].reply.lines[l].form = "ok"
                                /\ submitted[b].reply.lines[l].n = k

\* An input of more than one batch: the response for the first batch has a
\* well-formed line for link 31, the first link of the second batch is left as
\* it was, and a link of the first batch was rescored.
C32_Witness ==
    /\ ppc = "refined"
    /\ Len(submitted) >= 2
    /\ submitted[1].reply.ok
    /\ \E l \in 1..Len(submitted[1].reply.lines) :
          /\ submitted[1].reply.lines[l].form = "ok"
          /\ submitted[1].reply.lines[l].n = 31
          /\ submitted[1].reply.lines[l].score \in 0..100
    /\ refined_links[31] = links_to_refine[31]
    /\ \E i \in 1..30 : refined_links[i] # links_to_refine[i]

\* C18: with the refiner disabled or without a service credential, refinement
\* is a pass-through: no request is made, and every link keeps its heuristic
\* relevance_score and gets no llm_reason.
C18_PassThrough ==
    (ppc = "refined" /\ (~cfg.use_llm \/ ~cfg.api_key))
    => /\ submitted = <<>>
       /\ refined_links = CapLinks(sorted_links)
       /\ \A i \in 1..Len(refined_links) :
             /\ "llm_reason" \notin DOMAIN refined_links[i]
             /\ refined_links[i]["relevance_score"]
                   = calculate_relevance_score(all_links[refined_links[i]["url"]], keywords)

\* The refiner switched on, no key in the environment, a page with links.
C18_Witness ==
    /\ ppc = "refined"
    /\ cfg.use_llm /\ ~cfg.api_key
    /\ refined_links # <<>>

----------------------------------------------------------------------------
\* Claims about the transport chain.

InChainOrder == \A i \in 1..Len(attempts) : attempts[i].strategy = Strategies[i]

LastAttempt == attempts[Len(attempts)]

\* C19 as stated: the strategies are tried in the order requests, urllib3,
\* http.client; the content returned is that of the first strategy that got a
\* 200 response, and no strategy is tried after it.
C19_FirstSuccessWins ==
    /\ InChainOrder
    /\ \A i \in 1..(Len(attempts) - 1) : attempts[i].outcome.kind # "200"
    /\ (fpc = "returned" /\ LastAttempt.outcome.kind = "200")
       => html_content = LastAttempt.outcome.body

GotContent(attempt) == attempt.outcome.kind = "200" /\ attempt.outcome.body # 0

\* C19 as amended: the strategies are tried in the order requests, urllib3,
\* http.client; the content returned is that of the first strategy that got a
\* 200 response with a non-empty body, and no strategy is tried after it.  A
\* 200 response with an empty body counts as a failure of the strategy: the
\* next one is tried, and None is returned when the last one has failed.
C19_FirstContentWins ==
    /\ InChainOrder
    /\ \A i \in 1..(Len(attempts) - 1) : ~GotContent(attempts[i])
    /\ fpc = "returned"
       => IF GotContent(LastAttempt)
          THEN html_content = LastAttempt.outcome.body
          ELSE html_content = None /\ Len(attempts) = Len(Strategies)

\* requests got a 200 response with an empty body and the content of urllib3
\* was returned.
C19_Witness ==
    /\ fpc = "returned"
    /\ Len(attempts) = 2
    /\ attempts[1].outcome = [kind |-> "200", body |-> 0]
    /\ html_content = attempts[2].outcome.body
    /\ html_content # None

\* C20: no strategy raises out of _get_page_content: whatever failure a
\* strategy meets (network error, non-200 status, timeout, any other
\* exception), the chain goes on to the next strategy.
C20_NoStrategyRaises ==
    /\ fpc # "raised"
    /\ \A i \in 1..Len(attempts) :
          (~GotContent(attempts[i]) /\ i < Len(Strategies))
          => (i < Len(attempts) \/ fpc = Strategies[i + 1])

----------------------------------------------------------------------------
\* Claims about the run.

Failures == {"fetch_failed", "bad_markup", "store"}

\* C1: process_url_recursively terminates for every link graph, max_depth and
\* outcome of fetch, refine and store: the run reaches the state with no
\* pending call of _recursive_process and returns.
C1_Terminates == <>(pc = "done")

\* A terminated run in which a followed link pointed back to a processed page.
C1_Witness ==
    /\ pc = "done"
    /\ \E i \in 1..Len(calls) : \E j \in 1..Len(calls[i].follow) :
          calls[i].follow[j] \in {calls[k].url : k \in 1..i}

\* C2: no URL is fetched twice within a run, a URL whose fetch failed included,
\* and at the end of the run the visited set is as large as the set of URLs fetched.
C2_NoRefetch ==
    /\ \A u \in URLS : fetched[u] <= 1
    /\ pc = "done" => Cardinality(processed_urls) = Cardinality({u \in URLS : fetched[u] > 0})

\* A terminated run that came twice to a URL whose fetch had failed.
C2_Witness ==
    /\ pc = "done"
    /\ \E u \in URLS :
          /\ web[u].status = "fetch_failed"
          /\ \E i \in 1..Len(calls) : \E j, k \in 1..Len(calls[i].follow) :
                j # k /\ calls[i].follow[j] = u /\ calls[i].follow[k] = u
                /\ calls[i].depth < cfg.max_depth

Stored == IF connected THEN collection ELSE Range(in_memory_links)

\* The page of the first (last) process_url call in which url u cleared the
\* acceptance threshold; the page of the last call whose save reached the store.
FirstClearedFrom(u) ==
    calls[CHOOSE i \in 1..Len(calls) :
             /\ u \in Range(calls[i].cleared)
             /\ \A k \in 1..(i - 1) : u \notin Range(calls[k].cleared)].url

Writers(u) == {i \in 1..Len(calls) : u \in calls[i].written}

FirstWriter(u) == calls[CHOOSE i \in Writers(u) : \A k \in Writers(u) : i <= k].url
LastWriter(u)  == calls[CHOOSE i \in Writers(u) : \A k \in Writers(u) : k <= i].url

\* C4 as stated: the source_url of every stored record is the first page of
\* the run from which its url cleared the acceptance threshold.
C4_SourceIsFirstPage ==
    \A rec \in Stored : rec["source_url"] = FirstClearedFrom(rec["url"])

\* C4 as amended: source_url is the page of the save_links call that wrote the
\* record.  When the same url is accepted again from a second page, the network
\* record of that url carries the second page; the in-memory list keeps the
\* record of the first page and gets a further record carrying the second page.
C4_SourceIsLastWriter ==
    /\ connected => \A d \in collection : d["source_url"] = LastWriter(d["url"])
    /\ ~connected =>
          \A i \in 1..Len(in_memory_links) :
             LET u == in_memory_links[i]["url"]
             IN  /\ (\A k \in 1..(i - 1) : in_memory_links[k]["url"] # u)
                    => in_memory_links[i]["source_url"] = FirstWriter(u)
                 /\ (\A k \in (i + 1)..Len(in_memory_links) : in_memory_links[k]["url"] # u)
                    => in_memory_links[i]["source_url"] = LastWriter(u)

\* A url saved from two pages, with the network record carrying the second.
C4_Witness ==
    /\ connected
    /\ \E d \in collection :
          /\ FirstWriter(d["url"]) # LastWriter(d["url"])
          /\ d["source_url"] = LastWriter(d["url"])

\* C21: no URL is marked visited, fetched or saved from at a depth greater
\* than max_depth; with max_depth 0 only the seed is processed.
C21_DepthBounded ==
    /\ \A i \in 1..Len(calls) : calls[i].depth <= cfg.max_depth
    /\ processed_urls \cup visited_urls \cup {u \in URLS : fetched[u] > 0}
          \subseteq {calls[i].url : i \in 1..Len(calls)}
    /\ cfg.max_depth = 0 => /\ Len(calls) <= 1
                            /\ processed_urls \subseteq Seeds
                            /\ visited_urls \subseteq Seeds

\* A terminated run in which a page at depth max_depth chose a link to follow
\* and that link was never processed.
C21_Witness ==
    /\ pc = "done"
    /\ \E i \in 1..Len(calls) :
          /\ calls[i].depth = cfg.max_depth
          /\ \E j \in 1..Len(calls[i].follow) : calls[i].follow[j] \notin processed_urls

RECURSIVE AcceptedTotal(_)
AcceptedTotal(n) == IF n = 0 THEN 0 ELSE AcceptedTotal(n - 1) + Len(calls[n].cleared)

\* C22: the total process_url_recursively returns is the sum, over the URLs
\* processed, of the number of candidate links of the page at or above
\* min_score_threshold; these links are handed to save_links with the page as
\* source, and no link below the threshold is handed to save_links.
C22_TotalIsAcceptedSum ==
    /\ pc = "done" => result = AcceptedTotal(Len(calls))
    /\ \A i \in 1..Len(calls) :
          /\ calls[i].source = calls[i].url
          /\ \A j \in 1..Len(calls[i].scores) :
                calls[i].scores[j] >= cfg.min_score_threshold

\* The call of process_url for a URL (the latest one).
CallOf(url) ==
    calls[CHOOSE i \in 1..Len(calls) :
             /\ calls[i].url = url
             /\ \A k \in (i + 1)..Len(calls) : calls[k].url # url]

\* The accepted links of a call at or above max(0.7, min_score_threshold + 0.1).
AboveFollowThreshold(call) ==
    LET T   == IF cfg.min_score_threshold + 10 > 70
               THEN cfg.min_score_threshold + 10 ELSE 70
        idx == SelectSeq([j \in 1..Len(call.cleared) |-> j],
                         LAMBDA j : call.scores[j] >= T)
    IN  [k \in 1..Len(idx) |-> call.cleared[idx[k]]]

\* C23: the links a processed page recurses into at depth+1 are exactly the
\* first five, in list order, of its accepted links at or above
\* max(0.7, min_score_threshold + 0.1): no other link and no sixth one.
C23_FollowsFirstFive ==
    \A k \in 1..Len(stack) :
        stack[k].at = "loop"
        => LET over == AboveFollowThreshold(CallOf(stack[k].url))
           IN  stack[k].followed \o stack[k].pending
                  = <<>> \o SubSeq(over, 1, IF Len(over) > 5 THEN 5 ELSE Len(over))

\* C24: the candidate list of a page is cut to max_links_per_page before
\* refinement, filtering and persistence: at most max_links_per_page links of
\* one page are sent to the refiner, accepted, or saved.
C24_PageCapped ==
    \A i \in 1..Len(calls) :
        /\ calls[i].asked <= cfg.max_links_per_page
        /\ Len(calls[i].cleared) <= cfg.max_links_per_page
        /\ Cardinality(calls[i].written) <= cfg.max_links_per_page

\* A page with more links than max_links_per_page, all of them above the
\* threshold, was refined, accepted and saved.
C24_Witness ==
    \E i \in 1..Len(calls) :
        /\ Len(web[calls[i].url].links) > cfg.max_links_per_page
        /\ \A j \in 1..Len(web[calls[i].url].links) :
              web[calls[i].url].links[j]["relevance_score"] >= cfg.min_score_threshold
        /\ calls[i].asked = cfg.max_links_per_page
        /\ Len(calls[i].cleared) = cfg.max_links_per_page
        /\ calls[i].written # {}

\* C25: a second process_url_recursively call on the same ScraperManager
\* starts with no URL visited, and the seed is fetched and processed again as
\* in a first run.
C25_SecondRunIsFresh ==
    /\ (pc = "running" /\ \E s \in Seeds : stack = <<Frame(s, 0)>>)
          => visited_urls = {}
    /\ pc = "done" => \A s \in Seeds : fetched[s] = runs

\* C26: from the moment start_scrape has returned a task_id, every
\* get_task_status(task_id) answers with a status record and never with
\* 'Task not found', however the request interleaves with the background task.
C26_StatusAlwaysFound ==
    (status_response # NoResponse /\ status_response.known)
       => status_response.code = 200

Ended(task_id) ==
    /\ task_id \in DOMAIN active_tasks
    /\ \/ active_tasks[task_id].status = "completed"
       \/ /\ active_tasks[task_id].status = "failed"
          /\ "error" \in DOMAIN active_tasks[task_id]

\* C27: every run start_scrape started ends recorded as 'completed' or as
\* 'failed' with the error text, whatever exception was raised, one raised
\* while ScraperManager is constructed included.
C27_EveryRunEnds ==
    \A task_id \in TaskIds : (bg[task_id] # "none") ~> Ended(task_id)

\* The time of the first (last) process_url call whose save wrote url u:
\* datetime.now() of the k-th process_url call of the run is k.
FirstWrittenAt(u) == CHOOSE i \in Writers(u) : \A k \in Writers(u) : i <= k
LastWrittenAt(u)  == CHOOSE i \in Writers(u) : \A k \in Writers(u) : k <= i

\* C28 as stated: once a url is stored, no later step of the run changes the
\* timestamp stored for it.
C28_TimestampNeverChanges ==
    [][\A d \in collection : \A e \in collection' :
          e["url"] = d["url"] => e["timestamp"] = d["timestamp"]]_vars

\* C28 as amended: the timestamp of a record is the time of the process_url
\* call that accepted and saved it, and no read changes it.  When the same url
\* is accepted again by a later page, the network record takes the later
\* time; the in-memory list keeps the earlier record and gets a further one.
C28_TimestampOfLastAcceptance ==
    /\ connected => \A d \in collection : d["timestamp"] = LastWrittenAt(d["url"])
    /\ ~connected =>
          \A i \in 1..Len(in_memory_links) :
             LET u == in_memory_links[i]["url"]
             IN  /\ in_memory_links[i]["timestamp"] \in Writers(u)
                 /\ (\A k \in 1..(i - 1) : in_memory_links[k]["url"] # u)
                    => in_memory_links[i]["timestamp"] = FirstWrittenAt(u)
                 /\ (\A k \in (i + 1)..Len(in_memory_links) : in_memory_links[k]["url"] # u)
                    => in_memory_links[i]["timestamp"] = LastWrittenAt(u)
    /\ \A r \in get_links({}, <<>>, DefaultLimit, 0) :
          /\ r.coll = collection
          /\ Len(r.mem) = Len(in_memory_links)
          /\ Range(r.mem) = Range(in_memory_links)
    /\ \A r \in get_link_count({}) :
          /\ r.coll = collection
          /\ Len(r.mem) = Len(in_memory_links)
          /\ Range(r.mem) = Range(in_memory_links)

\* A url accepted and saved by two calls; its network record has the later time.
C28_Witness ==
    /\ connected
    /\ \E d \in collection :
          /\ Cardinality(Writers(d["url"])) >= 2
          /\ d["timestamp"] = LastWrittenAt(d["url"])
          /\ d["timestamp"] > FirstWrittenAt(d["url"])

\* 1 + 5 + 5^2 + ... + 5^d
RECURSIVE GeometricSum(_)
GeometricSum(d) == IF d = 0 THEN 1 ELSE 5 * GeometricSum(d - 1) + 1

CallsAtDepth(d) == {i \in 1..Len(calls) : calls[i].depth = d}

\* C34: in every run the number of URLs processed (marked visited) is at most
\* 1 + 5 + ... + 5^max_depth, whatever the link graph: the seed is the one URL
\* of depth 0 and each processed page recurses into at most five links.
C34_ProcessedBounded ==
    /\ Cardinality(processed_urls) <= GeometricSum(cfg.max_depth)
    /\ Cardinality(visited_urls) <= GeometricSum(cfg.max_depth)
    /\ Cardinality(processed_urls) = Len(calls)
    /\ Cardinality(CallsAtDepth(0)) <= 1
    /\ \A d \in 0..cfg.max_depth :
          Cardinality(CallsAtDepth(d + 1)) <= 5 * Cardinality(CallsAtDepth(d))
    /\ \A i \in 1..Len(calls) : Len(calls[i].follow) <= 5
    /\ \A k \in 1..Len(stack) : Len(stack[k].followed) + Len(stack[k].pending) <= 5

\* A finished run in which a page with more than five links at the follow
\* threshold recursed into five, and pages of the next depth were processed.
C34_Witness ==
    /\ pc = "done"
    /\ cfg.max_depth >= 1
    /\ \E i \in 1..Len(calls) :
          /\ Len(AboveFollowThreshold(calls[i])) > 5
          /\ Len(calls[i].follow) = 5
          /\ CallsAtDepth(calls[i].depth + 1) # {}
    /\ Cardinality(processed_urls) > 1

\* C35: the links a run started through start_scrape saved remain
\* retrievable after the run ended: a GET /links made after that returns them,
\* also when the store is the in-memory one.
C35_SavedLinksRetrievable ==
    links_response # NoResponse
    => \A t \in links_response.ended :
          task_saved[t] \subseteq Range(Urls(links_response.out))

====
